---- MODULE Spec2Model ----
(* aiLightBlocker Connector (src/main.py): a Maya tool window whose five    *)
(* button handlers read and change the host scene.  The model's state is   *)
(* the two widgets (lightBlockerField, lightListTSL) and the part of the   *)
(* host scene the handlers touch: which objects exist, the connections     *)
(* into every light shape's aiFilters array, and the plugs on which the    *)
(* host refuses connectAttr/disconnectAttr.  Each handler runs to          *)
(* completion as one action (single-threaded UI).                          *)
EXTENDS Integers, Sequences, FiniteSets, TLC

Ceiling == 1000      \* range(1000)
MaxIdx == 2          \* initial scenes use the aiFilters indices 0..MaxIdx-1
MaxConnects == 2     \* connect_blocker runs that change the scene in one behaviour
MaxList == 2         \* longest selection and longest light list explored

Blockers == {"blocker1", "blocker2"}
Lights == {"light1", "light2"}
Objects == Blockers \cup Lights \cup {"null1"}
(* The objects the artist selects; blocker2 is a second filter node that   *)
(* scenes already hold connections from.                                   *)
Selectable == Objects \ {"blocker2"}

(* listRelatives(o, s=True, f=True): lights and blockers carry one shape,  *)
(* the empty group null1 carries none.                                     *)
ShapeName(o) == IF o = "light1" THEN "light1Shape"
                ELSE IF o = "light2" THEN "light2Shape"
                ELSE IF o = "blocker1" THEN "blocker1Shape"
                ELSE "blocker2Shape"
listRelatives(o) == IF o \in Lights \cup Blockers THEN <<ShapeName(o)>> ELSE <<>>

(* Only light shapes own an aiFilters array.                               *)
LightShapes == {ShapeName(l) : l \in Lights}
TransformOf(sh) == CHOOSE l \in Lights : ShapeName(l) = sh

VARIABLES
    existing,    \* objects in the scene (cmds.objExists)
    conn,        \* conn[shape]: occupied aiFilters index -> source node of <node>.message
    locked,      \* plugs <<shape, idx>> on which connectAttr/disconnectAttr raise
    field,       \* text of lightBlockerField
    list,        \* items of lightListTSL, in order
    listSel,     \* selected items of lightListTSL
    last,        \* the user's last action and what the handler reported
    nconnects    \* connect_blocker runs so far

vars == <<existing, conn, locked, field, list, listSel, last, nconnects>>

Range(s) == {s[i] : i \in 1..Len(s)}

(* ------------------------------------------------------------------ *)
(* Host scene API, as the handlers call it                             *)
(* ------------------------------------------------------------------ *)

(* Plug names: "<node>.message" and "<shape>.aiFilters[<index>]".      *)
MessagePlug(node) == [node |-> node, attr |-> "message", index |-> -1]
FilterPlug(shape, idx) == [node |-> shape, attr |-> "aiFilters", index |-> idx]

(* getAttrMultiIndices answering with the indices of every light.     *)
getAttrAllIndices(c, shape) == UNION {DOMAIN c[sh] : sh \in DOMAIN c}

(* cmds.getAttr(shape + ".aiFilters", multiIndices=True): the occupied *)
(* indices.  Raises when the shape has no aiFilters attribute.         *)
HasAiFilters(shape) == shape \in LightShapes
getAttrMultiIndices(c, shape) == DOMAIN c[shape]

(* cmds.connectAttr(src, dest, f=True) raises when src names no node,  *)
(* on a plug the host refuses and when src already feeds dest;         *)
(* otherwise it makes the                                              *)
(* connection, the force flag replacing whatever fed dest before.      *)
connectAttrRaises(c, src, dest) ==
    \/ src.node \notin existing
    \/ <<dest.node, dest.index>> \in locked
    \/ (dest.index \in DOMAIN c[dest.node] /\ c[dest.node][dest.index] = src.node)
connectAttr(c, src, dest) ==
    [c EXCEPT ![dest.node] = (dest.index :> src.node) @@ c[dest.node]]

(* cmds.listConnections(shape + ".aiFilters", plugs=True,              *)
(* connections=True): one <<destAttr, sourceAttr>> pair per connection *)
(* (the flat list main.py walks two entries at a time).                *)
listConnections(c, shape) ==
    {<<FilterPlug(shape, i), MessagePlug(c[shape][i])>> : i \in DOMAIN c[shape]}

(* cmds.disconnectAttr(src, dest) raises on a plug the host refuses.   *)
disconnectAttrRaises(src, dest) == <<dest.node, dest.index>> \in locked
Without(f, D) == [i \in (DOMAIN f) \ D |-> f[i]]

(* ------------------------------------------------------------------ *)
(* Warnings and the record of the last handler                         *)
(* ------------------------------------------------------------------ *)
Warning(kind, obj, idx) == [kind |-> kind, obj |-> obj, idx |-> idx]
Report(op, sel, warn, attempts, raised) ==
    [op |-> op, sel |-> sel, warn |-> warn, attempts |-> attempts, raised |-> raised,
     prev |-> last.op]

(* ------------------------------------------------------------------ *)
(* connect_blocker                                                     *)
(* ------------------------------------------------------------------ *)

(* NextIndex with the index taken after the highest occupied one.      *)
NextIndexAfterLast(current_indices) ==
    IF current_indices = {} THEN 0
    ELSE (CHOOSE m \in current_indices : \A k \in current_indices : k <= m) + 1

(* Lines 74-80: the first idx of range(1000) not in current_indices;   *)
(* next_index keeps its initial 0 when current_indices is empty and    *)
(* when the loop ends without a break.                                 *)
NextIndex(current_indices) ==
    IF current_indices # {} /\ \E idx \in 0..(Ceiling - 1) : idx \notin current_indices
    THEN CHOOSE idx \in 0..(Ceiling - 1) :
            idx \notin current_indices /\ \A j \in 0..(idx - 1) : j \in current_indices
    ELSE 0

(* Lines 60-90, from the i-th light on.  r carries the scene            *)
(* connections, the warnings and the connectAttr calls made so far.    *)
(* listRelatives on a deleted object and getAttr on a shape without    *)
(* aiFilters raise outside the try block and end the handler.          *)
RECURSIVE ConnectLoop(_, _, _, _)
ConnectLoop(blocker, lights, i, r) ==
    IF i > Len(lights) THEN r
    ELSE LET light_transform == lights[i] IN
      IF light_transform \notin existing THEN [r EXCEPT !.raised = TRUE]
      ELSE LET shapes == listRelatives(light_transform) IN
        IF shapes = <<>>
        THEN ConnectLoop(blocker, lights, i + 1,
               [r EXCEPT !.warn = @ \cup {Warning("NoShape", light_transform, -1)}])
        ELSE LET light_shape == shapes[1] IN
          IF ~HasAiFilters(light_shape) THEN [r EXCEPT !.raised = TRUE]
          ELSE LET current_indices == getAttrMultiIndices(r.conn, light_shape)
                   next_index == NextIndex(current_indices)
                   dest_attr == FilterPlug(light_shape, next_index)
                   src_attr == MessagePlug(blocker)
                   tried == [r EXCEPT !.attempts = @ \cup {dest_attr}]
               IN IF connectAttrRaises(r.conn, src_attr, dest_attr)
                  THEN ConnectLoop(blocker, lights, i + 1,
                         [tried EXCEPT !.warn = @ \cup
                             {Warning("CouldNotConnect", light_shape, next_index)}])
                  ELSE ConnectLoop(blocker, lights, i + 1,
                         [tried EXCEPT !.conn = connectAttr(@, src_attr, dest_attr)])

Outcome(c) == [conn |-> c, warn |-> {}, attempts |-> {}, raised |-> FALSE]

(* InvalidBlocker without the cmds.objExists test.                     *)
EmptyBlocker(blocker) == blocker = ""

(* Lines 51 and 98: not blocker or not cmds.objExists(blocker).        *)
InvalidBlocker(blocker) == blocker = "" \/ blocker \notin existing

connect_blocker ==
    /\ nconnects < MaxConnects
    /\ LET blocker == field
           lights == list
           r == IF InvalidBlocker(blocker)
                THEN [Outcome(conn) EXCEPT !.warn = {Warning("InvalidBlocker", blocker, -1)}]
                ELSE IF lights = <<>>
                THEN [Outcome(conn) EXCEPT !.warn = {Warning("NoLights", "", -1)}]
                ELSE ConnectLoop(blocker, lights, 1, Outcome(conn))
       IN /\ conn' = r.conn
          /\ nconnects' = IF r.conn = conn THEN nconnects ELSE nconnects + 1
          /\ last' = Report("connect", <<>>, r.warn, r.attempts, r.raised)
    /\ UNCHANGED <<existing, locked, field, list, listSel>>

(* ------------------------------------------------------------------ *)
(* disconnect_blocker                                                  *)
(* ------------------------------------------------------------------ *)

(* Matches without the comparison of the source plug.                 *)
MatchesAnySource(blocker, dest_plug, src_plug) ==
    dest_plug.attr = "aiFilters" /\ dest_plug.index >= 0

(* Line 129: the pair is one to break.                                 *)
Matches(blocker, dest_plug, src_plug) ==
    MessagePlug(blocker) = src_plug /\ dest_plug.attr = "aiFilters" /\ dest_plug.index >= 0

(* BreakMatching that stops after the first matching pair.             *)
BreakFirstMatching(blocker, light_shape, r) ==
    LET connections == listConnections(r.conn, light_shape)
        matched == {p \in connections : MessagePlug(blocker) = p[2]}
        first == {p \in matched : \A q \in matched : p[1].index <= q[1].index}
        failed == {p \in first : disconnectAttrRaises(p[2], p[1])}
        gone == {p[1].index : p \in first \ failed}
    IN [r EXCEPT !.attempts = @ \cup {p[1] : p \in first},
                 !.warn = @ \cup {Warning("CouldNotDisconnect", p[1].node, p[1].index) : p \in failed},
                 !.conn = [@ EXCEPT ![light_shape] = Without(@, gone)]]

(* Lines 123-135 for one shape: every matching pair gets a             *)
(* disconnectAttr call; the ones that raise are reported and stay.     *)
BreakMatching(blocker, light_shape, r) ==
    LET connections == listConnections(r.conn, light_shape)
        matched == {p \in connections : Matches(blocker, p[1], p[2])}
        failed == {p \in matched : disconnectAttrRaises(p[2], p[1])}
        gone == {p[1].index : p \in matched \ failed}
    IN [r EXCEPT !.attempts = @ \cup {p[1] : p \in matched},
                 !.warn = @ \cup {Warning("CouldNotDisconnect", p[1].node, p[1].index) : p \in failed},
                 !.conn = [@ EXCEPT ![light_shape] = Without(@, gone)]]

(* Lines 107-135, from the i-th light on.  listRelatives on a deleted  *)
(* object and listConnections on a shape without aiFilters raise       *)
(* outside the try block and end the handler.                          *)
RECURSIVE DisconnectLoop(_, _, _, _)
DisconnectLoop(blocker, lights, i, r) ==
    IF i > Len(lights) THEN r
    ELSE LET light_transform == lights[i] IN
      IF light_transform \notin existing THEN [r EXCEPT !.raised = TRUE]
      ELSE LET shapes == listRelatives(light_transform) IN
        IF shapes = <<>>
        THEN DisconnectLoop(blocker, lights, i + 1,
               [r EXCEPT !.warn = @ \cup {Warning("NoShape", light_transform, -1)}])
        ELSE LET light_shape == shapes[1] IN
          IF ~HasAiFilters(light_shape) THEN [r EXCEPT !.raised = TRUE]
          ELSE DisconnectLoop(blocker, lights, i + 1, BreakMatching(blocker, light_shape, r))

disconnect_blocker ==
    /\ LET blocker == field
           lights == list
           r == IF InvalidBlocker(blocker)
                THEN [Outcome(conn) EXCEPT !.warn = {Warning("InvalidBlocker", blocker, -1)}]
                ELSE IF lights = <<>>
                THEN [Outcome(conn) EXCEPT !.warn = {Warning("NoLights", "", -1)}]
                ELSE DisconnectLoop(blocker, lights, 1, Outcome(conn))
       IN /\ conn' = r.conn
          /\ last' = Report("disconnect", <<>>, r.warn, r.attempts, r.raised)
    /\ UNCHANGED <<existing, locked, field, list, listSel, nconnects>>

(* ------------------------------------------------------------------ *)
(* The widgets' handlers                                               *)
(* ------------------------------------------------------------------ *)

(* cmds.ls(sl=True): the selected objects, in selection order.         *)
Selections ==
    {s \in UNION {[1..n -> existing \cap Selectable] : n \in 0..MaxList} :
        \A i, j \in 1..Len(s) : i # j => s[i] # s[j]}

pick_light_blocker(selection) ==
    /\ IF selection = <<>>
       THEN /\ last' = Report("pick", selection, {Warning("NoSelection", "", -1)}, {}, FALSE)
            /\ UNCHANGED field
       ELSE /\ field' = selection[1]
            /\ last' = Report("pick", selection, {}, {}, FALSE)
    /\ UNCHANGED <<existing, conn, locked, list, listSel, nconnects>>

(* AddLoop without the test for an item the list already holds.       *)
RECURSIVE AddLoopNoTest(_, _, _)
AddLoopNoTest(selection, i, items) ==
    IF i > Len(selection) THEN items
    ELSE AddLoopNoTest(selection, i + 1, Append(items, selection[i]))

(* Lines 28-32: append every selected object the list does not hold.   *)
RECURSIVE AddLoop(_, _, _)
AddLoop(selection, i, items) ==
    IF i > Len(selection) THEN items
    ELSE LET obj == selection[i]
             existingItems == items
         IN IF obj \notin Range(existingItems)
            THEN AddLoop(selection, i + 1, Append(items, obj))
            ELSE AddLoop(selection, i + 1, items)

add_selected_lights(selection) ==
    /\ IF selection = <<>>
       THEN /\ last' = Report("add", selection, {Warning("NoSelection", "", -1)}, {}, FALSE)
            /\ UNCHANGED list
       ELSE /\ list' = AddLoop(selection, 1, list)
            /\ Len(list') <= MaxList
            /\ last' = Report("add", selection, {}, {}, FALSE)
    /\ UNCHANGED <<existing, conn, locked, field, listSel, nconnects>>

(* textScrollList(e=True, ri=item): drop the item from the list (and   *)
(* with it its selection).                                             *)
RemoveAll(items, S) == SelectSeq(items, LAMBDA x : x \notin S)

remove_selected_lights ==
    /\ LET selected_in_list == listSel IN
       IF selected_in_list = {}
       THEN /\ last' = Report("remove", <<>>, {Warning("NoListSelection", "", -1)}, {}, FALSE)
            /\ UNCHANGED <<list, listSel>>
       ELSE /\ list' = RemoveAll(list, selected_in_list)
            /\ listSel' = {}
            /\ last' = Report("remove", <<>>, {}, {}, FALSE)
    /\ UNCHANGED <<existing, conn, locked, field, nconnects>>

(* ------------------------------------------------------------------ *)
(* The user, outside the handlers                                      *)
(* ------------------------------------------------------------------ *)
NoReport ==
    [op |-> "none", sel |-> <<>>, warn |-> {}, attempts |-> {}, raised |-> FALSE, prev |-> "none"]

(* Clicking items of lightListTSL (allowMultiSelection).               *)
SelectInList(S) ==
    /\ S \subseteq Range(list)
    /\ S # listSel
    /\ listSel' = S
    /\ last' = Report("select", <<>>, {}, {}, FALSE)
    /\ UNCHANGED <<existing, conn, locked, field, list, nconnects>>

(* Deleting an object in the host: its connections go with it, the     *)
(* widgets keep its name.                                              *)
HostDelete(o) ==
    /\ o \in existing
    /\ existing' = existing \ {o}
    /\ conn' = [sh \in LightShapes |->
                  IF o \in Lights /\ sh = ShapeName(o) THEN <<>>
                  ELSE Without(conn[sh], {i \in DOMAIN conn[sh] : conn[sh][i] = o})]
    /\ last' = Report("delete", <<>>, {}, {}, FALSE)
    /\ UNCHANGED <<locked, field, list, listSel, nconnects>>

(* ------------------------------------------------------------------ *)
(* The whole program.  The artist sets the window up (and may delete   *)
(* the blocker) in any order, then presses Connect and Disconnect in   *)
(* any order.                                                          *)
(* ------------------------------------------------------------------ *)

(* build_ui: an empty lightBlockerField and an empty lightListTSL,     *)
(* over the scene the artist has open.                                 *)
EmptyUI ==
    /\ existing = Objects
    /\ field = ""
    /\ list = <<>>
    /\ listSel = {}
    /\ last = NoReport
    /\ nconnects = 0

Init ==
    /\ EmptyUI
    /\ conn \in {[sh \in LightShapes |-> <<>>],
                 [sh \in LightShapes |-> IF sh = "light1Shape"
                                         THEN (0 :> "blocker1") @@ (1 :> "blocker2")
                                         ELSE <<>>]}
    /\ locked = {}

SettingUp == last.op \notin {"connect", "disconnect"}

Next ==
    \/ SettingUp /\ \E selection \in Selections : pick_light_blocker(selection)
    \/ SettingUp /\ \E selection \in Selections : add_selected_lights(selection)
    \/ SettingUp /\ remove_selected_lights
    \/ SettingUp /\ \E S \in SUBSET Range(list) : SelectInList(S)
    \/ SettingUp /\ \E o \in Blockers \cap Selectable : HostDelete(o)
    \/ connect_blocker
    \/ disconnect_blocker

Spec == Init /\ [][Next]_vars

(* ------------------------------------------------------------------ *)
(* Connect and disconnect over every small scene: the artist picks a   *)
(* blocker and fills the list once, then presses Connect and           *)
(* Disconnect in any order.                                            *)
(* ------------------------------------------------------------------ *)
FullArray(src) == [i \in 0..(Ceiling - 1) |-> src]
InitArrays == UNION {[D -> Blockers] : D \in SUBSET (0..(MaxIdx - 1))}
OtherArrays == {<<>>, 0 :> "blocker1", 0 :> "blocker2"}
RefusedPlugs == {<<"light1Shape", 0>>, <<"light1Shape", 1>>, <<"light2Shape", 0>>}
FullScenes ==
    {[sh \in LightShapes |-> IF sh = "light1Shape" THEN a ELSE <<>>] :
        a \in {FullArray("blocker2"),
               Without(FullArray("blocker2"), {Ceiling - 1}),
               Without(FullArray("blocker2"), {Ceiling - 2})}}

InitScene ==
    /\ EmptyUI
    /\ \/ /\ conn \in [LightShapes -> InitArrays \cup OtherArrays]
          /\ conn["light2Shape"] \in OtherArrays
          /\ locked \in {{}} \cup {{p} : p \in RefusedPlugs}
       \/ /\ conn \in FullScenes
          /\ locked = {}

NextScene ==
    \/ last.op = "none" /\ \E selection \in Selections : pick_light_blocker(selection)
    \/ last.op \in {"none", "pick"} /\ \E selection \in Selections : add_selected_lights(selection)
    \/ connect_blocker
    \/ disconnect_blocker

SpecScene == InitScene /\ [][NextScene]_vars

(* ------------------------------------------------------------------ *)
(* Properties                                                          *)
(* ------------------------------------------------------------------ *)
ConnectStep == last'.op = "connect"
DisconnectStep == last'.op = "disconnect"
BlockerExists == field # "" /\ field \in existing
ValidInputs == BlockerExists /\ list # <<>>
(* Nothing raised at the host: the only warnings are skipped items.    *)
Clean(r) == ~r.raised /\ \A w \in r.warn : w.kind = "NoShape"
ListedLights == Range(list) \cap Lights
Covers(S) == \A k \in 0..(Ceiling - 1) : k \in S
IsMex(k, S) == k \notin S /\ \A j \in 0..(k - 1) : j \in S
Edges(c, sh) == {<<i, c[sh][i]>> : i \in DOMAIN c[sh]}

(* C1: every index connect_blocker chooses is the smallest             *)
(* non-negative integer not occupied in that shape's aiFilters array,  *)
(* whenever the occupied set does not cover 0..999.                    *)
C1_IndexIsMex ==
    [][ConnectStep =>
         \A a \in last'.attempts :
            ~Covers(DOMAIN conn[a.node]) => IsMex(a.index, DOMAIN conn[a.node])]_vars

(* C1 witness: a connect chose index 0 on an array whose only         *)
(* occupied index was 1, held by another source.                       *)
C1_Witness_Gap ==
    /\ last.op = "connect"
    /\ \E a \in last.attempts :
          /\ a.index = 0
          /\ DOMAIN conn[a.node] = {0, 1}
          /\ conn[a.node][0] = field
          /\ conn[a.node][1] # field

(* C2: a connect_blocker run followed by a disconnect_blocker run,     *)
(* neither with a failing host call, leaves no connection from the     *)
(* blocker to the aiFilters array of any listed light.                 *)
C2_ConnectThenDisconnect ==
    [][(/\ last.op = "connect" /\ Clean(last)
        /\ DisconnectStep /\ Clean(last')
        /\ BlockerExists)
       => \A l \in ListedLights :
            \A i \in DOMAIN conn'[ShapeName(l)] : conn'[ShapeName(l)][i] # field]_vars

(* C2 witness: a clean disconnect right after a clean connect, which   *)
(* broke the new connection and one the scene held before.             *)
C2_Witness ==
    /\ last.op = "disconnect" /\ last.prev = "connect" /\ Clean(last)
    /\ BlockerExists
    /\ nconnects > 0
    /\ \E l \in ListedLights :
          Cardinality({a \in last.attempts : a.node = ShapeName(l)}) >= 2

(* C9: a connect_blocker run without host failure over two or more     *)
(* lights adds to each light's own array exactly one connection, from  *)
(* the blocker, at the index fixed by that array's occupied indices    *)
(* alone.                                                              *)
C9_OnePerLight ==
    [][(ConnectStep /\ ValidInputs /\ Clean(last') /\ Cardinality(ListedLights) >= 2)
       => \A l \in ListedLights :
            LET sh == ShapeName(l)
                S == DOMAIN conn[sh]
            IN \E k \in 0..(Ceiling - 1) :
                  /\ IF Covers(S) THEN k = 0 ELSE IsMex(k, S)
                  /\ Edges(conn', sh) \ Edges(conn, sh) = {<<k, field>>}
                  /\ DOMAIN conn'[sh] = S \cup {k}]_vars

(* C9 witness: one run gave index 0 to both lights.                    *)
C9_Witness_BothZero ==
    /\ last.op = "connect" /\ Clean(last)
    /\ last.attempts = {FilterPlug(ShapeName(l), 0) : l \in Lights}
    /\ \A l \in Lights : conn[ShapeName(l)][0] = field

(* C10: connect_blocker keeps every connection the scene held before   *)
(* the call.                                                           *)
C10_KeepsExisting ==
    [][ConnectStep =>
         \A sh \in LightShapes : Edges(conn, sh) \subseteq Edges(conn', sh)]_vars

(* C6: with a valid blocker and a non-empty list, every listed light   *)
(* gets a connectAttr call, whatever stands before it in the list.     *)
C6_EveryLightAttempted ==
    (last.op = "connect" /\ ValidInputs)
       => \A l \in ListedLights : \E a \in last.attempts : a.node = ShapeName(l)

(* C7: disconnect_blocker calls disconnectAttr on every connection     *)
(* from the blocker into a listed light's array, and those whose       *)
(* removal does not fail are gone afterwards.                          *)
C7_EveryMatchRemoved ==
    [][(DisconnectStep /\ ValidInputs)
       => \A l \in ListedLights :
            LET sh == ShapeName(l) IN
            \A i \in DOMAIN conn[sh] :
               conn[sh][i] = field =>
                  /\ FilterPlug(sh, i) \in last'.attempts
                  /\ (Warning("CouldNotDisconnect", sh, i) \notin last'.warn
                        => i \notin DOMAIN conn'[sh])]_vars

(* What disconnect_blocker may remove: connections from the blocker    *)
(* into the array of a listed light.                                   *)
Removable(sh) ==
    IF TransformOf(sh) \in ListedLights
    THEN {e \in Edges(conn, sh) : e[2] = field}
    ELSE {}
NoMatch == \A sh \in LightShapes : Removable(sh) = {}
DisconnectFrame ==
    \A sh \in LightShapes :
       /\ Edges(conn', sh) \subseteq Edges(conn, sh)
       /\ Edges(conn, sh) \ Edges(conn', sh) \subseteq Removable(sh)

(* C5 as stated: disconnect_blocker removes nothing but connections    *)
(* from the blocker into listed lights' arrays, and with valid inputs  *)
(* and no such connection it changes nothing and issues no warning.    *)
C5_Original ==
    [][DisconnectStep =>
         /\ DisconnectFrame
         /\ (ValidInputs /\ NoMatch => conn' = conn /\ last'.warn = {})]_vars

(* C5 amended: as above, but with no matching connection the handler   *)
(* calls disconnectAttr on nothing and its only warnings are the       *)
(* "No shape found" skips.                                             *)
C5_Amended ==
    [][DisconnectStep =>
         /\ DisconnectFrame
         /\ (ValidInputs /\ NoMatch =>
               /\ conn' = conn
               /\ last'.attempts = {}
               /\ \A w \in last'.warn : w.kind = "NoShape")]_vars

(* C5 witness: a disconnect that broke the blocker's connection and    *)
(* left another source's connection on the same array.                 *)
C5_Witness ==
    /\ last.op = "disconnect" /\ ValidInputs
    /\ \E l \in ListedLights :
          /\ \E a \in last.attempts : a.node = ShapeName(l) /\ a.index \notin DOMAIN conn[a.node]
          /\ \E i \in DOMAIN conn[ShapeName(l)] : conn[ShapeName(l)][i] = "blocker2"
    /\ \E l \in Lights \ ListedLights :
          \E i \in DOMAIN conn[ShapeName(l)] : conn[ShapeName(l)][i] = field

(* C3: running pick, add, remove, connect or disconnect a second time  *)
(* in a row, on the same selection, changes neither the scene          *)
(* connections nor the widgets.                                        *)
C3_IdempotentOnRetry ==
    [][(/\ last'.op \in {"pick", "add", "remove", "connect", "disconnect"}
        /\ last'.op = last.op
        /\ last'.sel = last.sel)
       => UNCHANGED <<conn, field, list, listSel>>]_vars

(* C4: the light list never holds a name twice, and adding only names  *)
(* it already holds leaves it as it was.                               *)
NoDuplicates(items) == \A i, j \in 1..Len(items) : i # j => items[i] # items[j]
C4_NoDuplicates ==
    /\ [](NoDuplicates(list))
    /\ [][(last'.op = "add" /\ Range(last'.sel) \subseteq Range(list)) => list' = list]_vars

(* C4 witness: an add whose selection named an item that was already   *)
(* in the list (it is selected there) together with a new one.         *)
C4_Witness ==
    /\ last.op = "add"
    /\ Len(last.sel) = 2
    /\ last.sel[1] \in listSel
    /\ Len(list) = 2

(* C8: connect and disconnect with no blocker, a deleted blocker or an *)
(* empty list, and pick and add with nothing selected, warn and change *)
(* nothing, and hand control back without an error.                    *)
C8_InputErrors ==
    [][/\ (last'.op \in {"connect", "disconnect"} /\ ~ValidInputs)
            => /\ last'.warn \in {{Warning("InvalidBlocker", field, -1)},
                                  {Warning("NoLights", "", -1)}}
               /\ last'.attempts = {}
               /\ ~last'.raised
               /\ UNCHANGED <<conn, existing, field, list, listSel>>
       /\ (last'.op \in {"pick", "add"} /\ last'.sel = <<>>)
            => /\ last'.warn = {Warning("NoSelection", "", -1)}
               /\ ~last'.raised
               /\ UNCHANGED <<conn, existing, field, list, listSel>>]_vars

(* C8 witness: Connect pressed with a light in the list and a blocker  *)
(* field naming an object that was deleted; only the warning came.     *)
C8_Witness ==
    /\ last.op = "connect"
    /\ field # "" /\ field \notin existing
    /\ ListedLights # {}
    /\ last.warn = {Warning("InvalidBlocker", field, -1)}

====
